---- MODULE Spec2Model ----
(***************************************************************************)
(* Model of membranequant: the ImageQuant quantification engine            *)
(* (quantification.py) and the array utilities it calls (funcs.py).        *)
(*                                                                         *)
(* Number representation.  The program computes in floating point; the     *)
(* model computes in exact fixed point:                                    *)
(*   - itp is carried as itp2 = 2*itp, so itp ranges over 1, 1.5, 2, ...   *)
(*   - freedom is carried as fnum, freedom = fnum / FDen                   *)
(*   - a candidate index l is carried as l2 = l * 2 * FDen                 *)
(*   - an offset o is carried as onum, o = onum / (FDen * itp2)            *)
(*   - cytoplasm / membrane levels c, m are carried as c5 = 5*c, m5 = 5*m  *)
(*   - interpolated values are rounded down to the integer grid            *)
(* An image (2D array) is a sequence of rows, each row a sequence with one *)
(* entry per column (position).  None is the empty sequence; an unset      *)
(* nfits is NoneN; a floating-point NaN is the value NaN.                  *)
(***************************************************************************)
EXTENDS Integers, Sequences, FiniteSets, TLC

VARIABLES config, self, pc, call, i, trace, ncalls, err,
          straight_loc, results, ndone, order, fitted, lastpass,
          saved, lastCall, prevCall,
          fn, fn_in, fn_out

vars == <<config, self, pc, call, i, trace, ncalls, err,
          straight_loc, results, ndone, order, fitted, lastpass,
          saved, lastCall, prevCall,
          fn, fn_in, fn_out>>

engvars == <<config, self, pc, call, i, trace, ncalls, err,
             straight_loc, results, ndone, order, fitted, lastpass,
             saved, lastCall, prevCall>>

fnvars == <<fn, fn_in, fn_out>>

----------------------------------------------------------------------------
(* Bounds of the model *)

MaxIter == 2
MaxRoiLen == 4
MaxNfits == 2
MaxCalls == 2
MaxThickness == 3
MaxItp2 == 4
FDen == 2
MaxArrLen == 2
MaxInterpN == 3
MaxCols == 4

(* Values standing for Python's None *)
None == <<>>
NoneN == 0

----------------------------------------------------------------------------
(* Array helpers (numpy shapes and slices) *)

Zeros(n) == [k \in 1..n |-> 0]

Zeros2(r, c) == [a \in 1..r |-> Zeros(c)]

NRows(array) == Len(array)

NCols(array) == IF Len(array) = 0 THEN 0 ELSE Len(array[1])

Column(array, x) == [r \in 1..Len(array) |-> array[r][x]]

Abs(v) == IF v < 0 THEN -v ELSE v

MaxOf(a, b) == IF a >= b THEN a ELSE b

MinOf(a, b) == IF a <= b THEN a ELSE b

RECURSIVE SeqMax(_)
SeqMax(s) == IF Len(s) = 1 THEN s[1] ELSE MaxOf(s[1], SeqMax(Tail(s)))

RECURSIVE SeqSum(_)
SeqSum(s) == IF Len(s) = 0 THEN 0 ELSE s[1] + SeqSum(Tail(s))

(* Python slice s[a:b] with 0-based a, b already clipped to 0..Len(s) *)
Slice(s, a, b) == IF b <= a THEN <<>> ELSE SubSeq(s, a + 1, b)

(* The floating-point NaN: 0/0 yields it, and every arithmetic step that   *)
(* meets it yields it again                                                *)
NaN == -1000000

HasNaN(s) == \E k \in 1..Len(s) : s[k] = NaN

HasNaN2(array) == \E r \in 1..Len(array) : HasNaN(array[r])

----------------------------------------------------------------------------
(* funcs.py: interpolation utilities *)

(* interp_1d_array raises inside numpy / scipy when there is nothing to    *)
(* interpolate from: np.interp on an empty sample array, CubicSpline on    *)
(* fewer than two points or on values that are not all finite.             *)
interp_1d_raises(array, n, method) ==
    \/ method = "linear" /\ Len(array) = 0
    \/ method = "cubic" /\ (Len(array) < 2 \/ HasNaN(array))

(* np.linspace(0, len(array) - 1, n) evaluated piecewise-linearly; any     *)
(* method other than linear / cubic falls off the end and returns None.    *)
interp_1d_array(array, n, method) ==
    IF method \in {"linear", "cubic"}
    THEN [k \in 1..n |->
            IF n = 1 THEN array[1]
            ELSE LET num == (k - 1) * (Len(array) - 1)
                     den == n - 1
                     j   == num \div den
                     r   == num % den
                 IN  IF r = 0 THEN array[j + 1]
                     ELSE IF array[j + 1] = NaN \/ array[j + 2] = NaN THEN NaN
                     ELSE (array[j + 1] * (den - r) + array[j + 2] * r) \div den]
    ELSE None

interp_2d_raises(array, n, ax, method) ==
    \/ ax = 1 /\ \E x \in 1..NCols(array) : interp_1d_raises(Column(array, x), n, method)
    \/ ax = 0 /\ \E r \in 1..NRows(array) : interp_1d_raises(array[r], n, method)

(* ax = 1: every column resampled to n rows; ax = 0: every row resampled   *)
(* to n columns; any other ax: the function returns None.                  *)
interp_2d_array(array, n, ax, method) ==
    IF ax = 1
    THEN [r \in 1..n |-> [x \in 1..NCols(array) |->
                              interp_1d_array(Column(array, x), n, method)[r]]]
    ELSE IF ax = 0
    THEN [r \in 1..NRows(array) |-> interp_1d_array(array[r], n, method)]
    ELSE None

(* Outcome of a call as its caller sees it *)
Returned(v) == [raised |-> FALSE, value |-> v]

Raised(e) == [raised |-> TRUE, exc |-> e]

----------------------------------------------------------------------------
(* funcs.py: rolling average *)

FirstN(row, h) == SubSeq(row, 1, MinOf(h, Len(row)))

LastN(row, h) == SubSeq(row, Len(row) - MinOf(h, Len(row)) + 1, Len(row))

DropLast(row) == SubSeq(row, 1, Len(row) - 1)

(* np.c_[...] of one row: the row with its padding on both sides *)
PadRow(row, window, periodic) ==
    LET h == window \div 2
    IN  IF ~periodic
        THEN DropLast(FirstN(row, h)) \o row \o DropLast(LastN(row, h))
        ELSE LastN(row, h) \o row \o FirstN(row, h)

(* (cumsum[window:] - cumsum[:-window]) / window of one padded row; the    *)
(* running sum is NaN from the first NaN of the row onwards                *)
WindowMeans(padded, window) ==
    LET cs(j) == SeqSum(SubSeq(padded, 1, j))
        n == MaxOf(Len(padded) - window, 0)
    IN  [k \in 1..n |-> IF HasNaN(SubSeq(padded, 1, window + k)) THEN NaN
                        ELSE (cs(window + k) - cs(k)) \div window]

rolling_ave_2d(array, window, periodic) ==
    IF window = 1 THEN array
    ELSE [r \in 1..NRows(array) |->
            WindowMeans(PadRow(array[r], window, periodic), window)]

----------------------------------------------------------------------------
(* funcs.py: straightening and ROI rotation *)

(* Pixels of the source image are addressed by a point <<x, y>> *)
Points == {<<0, 0>>, <<1, 1>>}

PixelAt(img, pt) == img[pt[2] + 1][pt[1] + 1]

(* np.diff(coors, prepend=coors[-1]): the difference of each point to its  *)
(* predecessor, of the first point to the last                             *)
Pred(roi, x) == IF x = 1 THEN Len(roi) ELSE x - 1

xdiffs(roi) == [x \in 1..Len(roi) |-> roi[x][1] - roi[Pred(roi, x)][1]]

ydiffs(roi) == [x \in 1..Len(roi) |-> roi[x][2] - roi[Pred(roi, x)][2]]

(* position x coincides with its predecessor: grad = 0 / 0 *)
Coincident(roi, x) == xdiffs(roi)[x] = 0 /\ ydiffs(roi)[x] = 0

(* The sample coordinates of position x are NaN when ydiffs is 0 there:    *)
(* with xdiffs 0 too grad is 0/0 and every term is NaN; with xdiffs not 0  *)
(* grad is 0, tangent_grad infinite, xchange 0 and ychange = 0/0.  With    *)
(* ydiffs not 0 every term is finite (xdiffs = 0 gives an infinite grad,   *)
(* tangent_grad 0 and ychange 0).  No line tests for either case.          *)
GridCoorsNaN(roi, x) == ydiffs(roi)[x] = 0

(* ycoors[-1] of an ROI without points *)
straighten_raises(roi) == Len(roi) = 0

(* One column per ROI point, ninterp = thickness rows.  A sample at        *)
(* defined coordinates is taken at the nearest pixel, which for the images *)
(* of the model is the pixel of the ROI point itself; a sample at NaN      *)
(* coordinates is NaN.                                                     *)
straighten(img, roi, thickness) ==
    [r \in 1..thickness |->
        [x \in 1..Len(roi) |->
            IF GridCoorsNaN(roi, x) THEN NaN ELSE PixelAt(img, roi[x])]]

(* np.roll(roi, shift, 0) *)
Roll(roi, shift) ==
    [k \in 1..Len(roi) |-> roi[((k - 1 - shift) % Len(roi)) + 1]]

(* np.argmin: first index (0-based) of the smallest entry *)
ArgMin(vals) ==
    CHOOSE a \in 0..(Len(vals) - 1) :
        /\ \A b \in 0..(Len(vals) - 1) : vals[a + 1] <= vals[b + 1]
        /\ \A b \in 0..(a - 1) : vals[b + 1] > vals[a + 1]

(* np.argmax: first index (0-based) of the largest entry *)
ArgMax(vals) == ArgMin([k \in 1..Len(vals) |-> -vals[k]])

(* The points of the model lie on the diagonal x = y, which is their long  *)
(* axis: the score of a point along it is x + y less the mean (scaled by   *)
(* the point count) and the score across it is 0.  Distances are compared  *)
(* squared.                                                                *)
rotate_roi(roi) ==
    LET total == SeqSum([k \in 1..Len(roi) |-> roi[k][1] + roi[k][2]])
        along == [k \in 1..Len(roi) |-> Len(roi) * (roi[k][1] + roi[k][2]) - total]
        a == ArgMin([k \in 1..Len(roi) |-> MinOf(along[k], 0)])
        b == ArgMax([k \in 1..Len(roi) |-> MaxOf(along[k], 0)])
        d2(k) == (roi[1][1] - roi[k + 1][1]) * (roi[1][1] - roi[k + 1][1])
                 + (roi[1][2] - roi[k + 1][2]) * (roi[1][2] - roi[k + 1][2])
    IN  IF d2(a) < d2(b) THEN Roll(roi, Len(roi) - a) ELSE Roll(roi, Len(roi) - b)

----------------------------------------------------------------------------
(* roi.py (not among the sources): ROI adjustment collaborators *)

RECURSIVE SeqsOfLen(_, _)
SeqsOfLen(S, n) ==
    IF n = 0 THEN {<<>>}
    ELSE {Append(s, e) : s \in SeqsOfLen(S, n - 1), e \in S}

(* ROIs whose consecutive points are distinct *)
SpacedRois ==
    {r \in UNION {SeqsOfLen(Points, n) : n \in 2..MaxRoiLen} :
        \A k \in 1..(Len(r) - 1) : r[k] # r[k + 1]}

(* interp_roi(spline_roi(offset_coordinates(roi, offsets), periodic, 100), *)
(* periodic): the displaced, smoothed line resampled to unit spacing; its  *)
(* point count follows its arc length and may differ from that of roi.     *)
AdjustedRois(roi, offsets, periodic) == SpacedRois

----------------------------------------------------------------------------
(* quantification.py: the ImageQuant object *)

(* int(itp * thickness) *)
ThicknessItp(itp2, thickness) == (itp2 * thickness) \div 2

(* Reference curves at upsampled resolution, 2 * thickness_itp samples     *)
(* centred on index thickness_itp (0-based), in the limit of a boundary    *)
(* much sharper than a sample (sigma -> 0): the error-function curve is a  *)
(* step 0, 1/2, 1 (stored doubled) and the Gaussian is 1 at the centre.    *)
cytbg_itp(s) ==
    [k \in 1..(2 * s.thickness_itp) |->
        IF k - 1 < s.thickness_itp THEN 0
        ELSE IF k - 1 = s.thickness_itp THEN 1 ELSE 2]

membg_itp(s) ==
    [k \in 1..(2 * s.thickness_itp) |-> IF k - 1 = s.thickness_itp THEN 1 ELSE 0]

(* len(self.roi[:, 0]) raises TypeError when roi is None *)
HasRoi(s) == s.roi # None

(* reset_res: fails at its first len(self.roi[:, 0]); with nfits already   *)
(* set that is line 260, after offsets, cyts and mems were zeroed.         *)
reset_res_raises(s) == ~HasRoi(s)

reset_resFullByNfits(s) ==
    IF ~HasRoi(s)
    THEN IF s.nfits = NoneN THEN s
         ELSE [s EXCEPT !.offsets = Zeros(s.nfits),
                        !.cyts = Zeros(s.nfits),
                        !.mems = Zeros(s.nfits)]
    ELSE LET nfits == IF s.nfits = NoneN THEN Len(s.roi) ELSE s.nfits
             n == Len(s.roi)
         IN  [s EXCEPT !.nfits = nfits,
                       !.offsets = Zeros(nfits),
                       !.cyts = Zeros(nfits),
                       !.mems = Zeros(nfits),
                       !.offsets_full = Zeros(nfits),
                       !.cyts_full = Zeros(nfits),
                       !.mems_full = Zeros(nfits),
                       !.straight = Zeros2(s.thickness, n),
                       !.straight_filtered = Zeros2(s.thickness, n),
                       !.straight_fit = Zeros2(s.thickness, n),
                       !.straight_mem = Zeros2(s.thickness, n),
                       !.straight_cyt = Zeros2(s.thickness, n),
                       !.straight_resids = Zeros2(s.thickness, n),
                       !.straight_resids_pos = Zeros2(s.thickness, n),
                       !.straight_resids_neg = Zeros2(s.thickness, n)]

reset_res(s) ==
    IF ~HasRoi(s)
    THEN IF s.nfits = NoneN THEN s
         ELSE [s EXCEPT !.offsets = Zeros(s.nfits),
                        !.cyts = Zeros(s.nfits),
                        !.mems = Zeros(s.nfits)]
    ELSE LET nfits == IF s.nfits = NoneN THEN Len(s.roi) ELSE s.nfits
             n == Len(s.roi)
         IN  [s EXCEPT !.nfits = nfits,
                       !.offsets = Zeros(nfits),
                       !.cyts = Zeros(nfits),
                       !.mems = Zeros(nfits),
                       !.offsets_full = Zeros(n),
                       !.cyts_full = Zeros(n),
                       !.mems_full = Zeros(n),
                       !.straight = Zeros2(s.thickness, n),
                       !.straight_filtered = Zeros2(s.thickness, n),
                       !.straight_fit = Zeros2(s.thickness, n),
                       !.straight_mem = Zeros2(s.thickness, n),
                       !.straight_cyt = Zeros2(s.thickness, n),
                       !.straight_resids = Zeros2(s.thickness, n),
                       !.straight_resids_pos = Zeros2(s.thickness, n),
                       !.straight_resids_neg = Zeros2(s.thickness, n)]

(* __init__: cfg holds the constructor's arguments *)
__init__(cfg) ==
    LET s0 == [img |-> cfg.img,
               roi_init |-> cfg.roi,
               roi |-> cfg.roi,
               periodic |-> cfg.periodic,
               bg_subtract |-> cfg.bg_subtract,
               iterations |-> cfg.iterations,
               thickness |-> cfg.thickness,
               itp2 |-> cfg.itp2,
               thickness_itp |-> ThicknessItp(cfg.itp2, cfg.thickness),
               fnum |-> cfg.fnum,
               rol_ave |-> cfg.rol_ave,
               rotate |-> cfg.rotate,
               zerocap |-> cfg.zerocap,
               nfits |-> cfg.nfits,
               interp |-> cfg.interp,
               save_path |-> cfg.save_path,
               parallel |-> cfg.parallel,
               offsets |-> None, cyts |-> None, mems |-> None,
               offsets_full |-> None, cyts_full |-> None, mems_full |-> None,
               straight |-> None, straight_filtered |-> None,
               straight_fit |-> None, straight_mem |-> None,
               straight_cyt |-> None, straight_resids |-> None,
               straight_resids_pos |-> None, straight_resids_neg |-> None]
    IN  IF cfg.roi # None THEN reset_res(s0) ELSE s0

(* reset *)
resetKeepsRoi(s) == reset_res(s)

reset_raises(s) == reset_res_raises([s EXCEPT !.roi = s.roi_init])

reset(s) == reset_res([s EXCEPT !.roi = s.roi_init])

(* adjust_roi: offset_coordinates fails on a missing ROI *)
adjust_roi_raises(s) == ~HasRoi(s)

(* the ROIs adjust_roi may leave in self.roi *)
adjust_roi(s) ==
    {[s EXCEPT !.roi = IF s.periodic /\ s.rotate THEN rotate_roi(r) ELSE r] :
        r \in AdjustedRois(s.roi, s.offsets_full, s.periodic)}

----------------------------------------------------------------------------
(* quantification.py: fit, up to the resampled stack *)

BgRows == 5

(* np.mean(self.straight[:5, :]) *)
BgIntensity(straight) ==
    LET rows == FirstN(straight, BgRows)
        total == SeqSum([r \in 1..Len(rows) |-> SeqSum(rows[r])])
    IN  IF HasNaN2(rows) THEN NaN ELSE total \div (Len(rows) * NCols(rows))

AddScalar(array, v) ==
    [r \in 1..NRows(array) |->
        [x \in 1..Len(array[r]) |->
            IF array[r][x] = NaN \/ v = NaN THEN NaN ELSE array[r][x] + v]]

(* self after lines 132-149: nfits, straight, img, straight_filtered *)
fit_straighten(s) ==
    LET nfits == IF s.nfits = NoneN THEN Len(s.roi) ELSE s.nfits
        raw == straighten(s.img, s.roi, s.thickness)
        bg == IF s.bg_subtract THEN BgIntensity(raw) ELSE 0
        straight == AddScalar(raw, -bg)
        filtered == IF s.rol_ave # 0
                    THEN rolling_ave_2d(straight, s.rol_ave, s.periodic)
                    ELSE straight
    IN  [s EXCEPT !.nfits = nfits,
                  !.straight = straight,
                  !.img = AddScalar(s.img, -bg),
                  !.straight_filtered = filtered]

(* lines 152-153, on self as fit_straighten left it *)
fit_interp_raises(s) ==
    \/ interp_2d_raises(s.straight_filtered, s.thickness_itp, 1, s.interp)
    \/ interp_2d_raises(interp_2d_array(s.straight_filtered, s.thickness_itp, 1, s.interp),
                        s.nfits, 0, s.interp)

fit_interp(s) ==
    interp_2d_array(interp_2d_array(s.straight_filtered, s.thickness_itp, 1, s.interp),
                    s.nfits, 0, s.interp)

----------------------------------------------------------------------------
(* quantification.py: _fit_profile *)

(* the three search intervals handed to the optimizer, as <<lower, upper>> *)
SearchBounds(s, profile) ==
    LET mx == SeqMax(profile)
        lb == <<s.thickness_itp * (FDen - s.fnum), s.thickness_itp * (FDen + s.fnum)>>
        cm == IF s.zerocap THEN <<0, MaxOf(10 * mx, 0)>> ELSE <<-mx, 10 * mx>>
    IN  [l2 |-> lb, c5 |-> cm, m5 |-> cm]

WellFormed(b) == b.l2[1] <= b.l2[2] /\ b.c5[1] <= b.c5[2] /\ b.m5[1] <= b.m5[2]

Between(iv) == MinOf(iv[1], iv[2])..MaxOf(iv[1], iv[2])

(* res.x of differential_evolution: some point of the search box.  The     *)
(* grid holds every l on the 1/(2*FDen) grid and the end points of the c   *)
(* and m intervals; the corners are the two opposite corners of the box.   *)
BoxGrid(b) ==
    {[l2 |-> l, c5 |-> c, m5 |-> m] :
        l \in Between(b.l2), c \in {b.c5[1], b.c5[2]}, m \in {b.m5[1], b.m5[2]}}

BoxCorners(b) ==
    {[l2 |-> MinOf(b.l2[1], b.l2[2]), c5 |-> MinOf(b.c5[1], b.c5[2]),
      m5 |-> MinOf(b.m5[1], b.m5[2])],
     [l2 |-> MaxOf(b.l2[1], b.l2[2]), c5 |-> MaxOf(b.c5[1], b.c5[2]),
      m5 |-> MaxOf(b.m5[1], b.m5[2])]}

(* o = (res.x[0] - thickness_itp / 2) / itp, as onum = o * FDen * itp2 *)
OffsetOfUncentred(s, l2) == l2

OffsetOf(s, l2) == l2 - s.thickness_itp * FDen

(* the returned triple (o, c, m) for the optimizer's answer x *)
_fit_profile(s, x) == <<OffsetOf(s, x.l2), x.c5, x.m5>>

----------------------------------------------------------------------------
(* quantification.py: fit, collection of the results *)

Pending == <<>>

(* Parallel(...)(...) returns its list in submission order: the triple of  *)
(* the task given column x is element x, whenever that task completes.     *)
StoreResultByCompletion(res, done, x, triple) == [res EXCEPT ![done + 1] = triple]

StoreResult(res, done, x, triple) == [res EXCEPT ![x] = triple]

(* results[:, k] *)
ResultColumn(res, k) == [x \in 1..Len(res) |-> res[x][k]]

(* lines 159-161 *)
fit_collect(s, res) ==
    [s EXCEPT !.offsets = ResultColumn(res, 1),
              !.cyts = ResultColumn(res, 2),
              !.mems = ResultColumn(res, 3)]

(* line 164 for one column x *)
fit_store(s, x, triple) ==
    [s EXCEPT !.offsets[x] = triple[1],
              !.cyts[x] = triple[2],
              !.mems[x] = triple[3]]

(* lines 167-169 *)
fit_full(s) ==
    [s EXCEPT !.offsets_full = interp_1d_array(s.offsets, Len(s.roi), "linear"),
              !.cyts_full = interp_1d_array(s.cyts, Len(s.roi), "linear"),
              !.mems_full = interp_1d_array(s.mems, Len(s.roi), "linear")]

----------------------------------------------------------------------------
(* quantification.py: sim_images and save *)

(* l = int(offsets_full[x] * itp + thickness_itp / 2) *)
SimIndex(s, x) == (s.offsets_full[x] + s.thickness_itp * FDen) \div (2 * FDen)

(* reference curve slices [l : l + thickness_itp] of column x, weighted by *)
(* the fitted levels and resampled to thickness rows; values in tenths     *)
SimCyt(s, x) ==
    LET l == SimIndex(s, x)
        sl == Slice(cytbg_itp(s), l, l + s.thickness_itp)
    IN  interp_1d_array([k \in 1..Len(sl) |-> s.cyts_full[x] * sl[k]],
                        s.thickness, s.interp)

SimMem(s, x) ==
    LET l == SimIndex(s, x)
        sl == Slice(membg_itp(s), l, l + s.thickness_itp)
    IN  interp_1d_array([k \in 1..Len(sl) |-> 2 * s.mems_full[x] * sl[k]],
                        s.thickness, s.interp)

SimFit(s, x) ==
    LET l == SimIndex(s, x)
        cy == Slice(cytbg_itp(s), l, l + s.thickness_itp)
        me == Slice(membg_itp(s), l, l + s.thickness_itp)
    IN  interp_1d_array([k \in 1..Len(cy) |->
                            s.cyts_full[x] * cy[k] + 2 * s.mems_full[x] * me[k]],
                        s.thickness, s.interp)

(* columns the loop of sim_images completes before an index runs past the  *)
(* end of a results array or of an image that was sized for another ROI    *)
SimCols(s) ==
    MinOf(MinOf(Len(s.roi), Len(s.cyts_full)),
          MinOf(NCols(s.straight_cyt), NCols(s.straight)))

sim_images_raises(s) ==
    \/ ~HasRoi(s)
    \/ SimCols(s) < Len(s.roi)
    \/ s.interp = "cubic" /\ s.thickness_itp < 2

(* array[:, x] = cols[x] for the first n columns x *)
SetColumns(array, n, cols) ==
    [r \in 1..NRows(array) |->
        [x \in 1..Len(array[r]) |-> IF x <= n THEN cols[x][r] ELSE array[r][x]]]

sim_images(s) ==
    IF ~HasRoi(s) \/ (s.interp = "cubic" /\ s.thickness_itp < 2) THEN s
    ELSE LET n == SimCols(s)
             (* columns of cyt, mem and fit written by an iteration that   *)
             (* then fails on self.straight[:, x]                          *)
             n3 == IF n < Len(s.roi) /\ n < Len(s.cyts_full)
                      /\ n < NCols(s.straight_cyt) THEN n + 1 ELSE n
             resid == [x \in 1..n |-> [r \in 1..s.thickness |->
                          IF s.straight[r][x] = NaN THEN NaN
                          ELSE 10 * s.straight[r][x] - SimFit(s, x)[r]]]
             pos == [x \in 1..n |-> [r \in 1..s.thickness |->
                          IF resid[x][r] = NaN THEN NaN ELSE MaxOf(resid[x][r], 0)]]
             neg == [x \in 1..n |-> [r \in 1..s.thickness |->
                          IF resid[x][r] = NaN THEN NaN ELSE Abs(MinOf(resid[x][r], 0))]]
             cyt == [x \in 1..n3 |-> SimCyt(s, x)]
             mem == [x \in 1..n3 |-> SimMem(s, x)]
             fit == [x \in 1..n3 |-> SimFit(s, x)]
         IN  [s EXCEPT !.straight_cyt = SetColumns(s.straight_cyt, n3, cyt),
                       !.straight_mem = SetColumns(s.straight_mem, n3, mem),
                       !.straight_fit = SetColumns(s.straight_fit, n3, fit),
                       !.straight_resids = SetColumns(s.straight_resids, n, resid),
                       !.straight_resids_pos = SetColumns(s.straight_resids_pos, n, pos),
                       !.straight_resids_neg = SetColumns(s.straight_resids_neg, n, neg)]

(* the tables and images save writes under save_path; the variable saved  *)
(* holds them once written, and is empty before                            *)
save(s) ==
    [offsets |-> s.offsets, cyts |-> s.cyts, mems |-> s.mems, roi |-> s.roi,
     img |-> s.img, straight |-> s.straight, straight_fit |-> s.straight_fit]

----------------------------------------------------------------------------
(* The engine as a state machine: one ImageQuant object and its caller *)

Img0 == <<<<6, 0>>, <<0, 2>>>>

SavePaths == {None, <<"out">>}

Interps == {"cubic"}

(* initial ROIs handed to the constructor, None being the default; the    *)
(* ROI of three points ends on its first point                             *)
InitRois == {None, <<<<0, 0>>, <<1, 1>>>>, <<<<1, 1>>, <<0, 0>>, <<1, 1>>>>}

(* the options that only shape the data: the defaults (with the window    *)
(* scaled to the ROIs of the model) and each option changed on its own     *)
BaseOptions == [periodic |-> TRUE, rotate |-> FALSE, rol_ave |-> 2, bg_subtract |-> FALSE]

DataOptions ==
    {BaseOptions,
     [BaseOptions EXCEPT !.periodic = FALSE, !.rol_ave = 1],
     [BaseOptions EXCEPT !.rotate = TRUE],
     [BaseOptions EXCEPT !.rol_ave = 0],
     [BaseOptions EXCEPT !.rol_ave = 3],
     [BaseOptions EXCEPT !.bg_subtract = TRUE]}

Configs ==
    {[img |-> Img0, roi |-> r, fnum |-> 1, periodic |-> d.periodic,
      thickness |-> 2, itp2 |-> 2, rol_ave |-> d.rol_ave, parallel |-> p,
      rotate |-> d.rotate, zerocap |-> TRUE, nfits |-> n, iterations |-> it,
      interp |-> m, save_path |-> sp, bg_subtract |-> d.bg_subtract] :
        r \in InitRois, d \in DataOptions, p \in BOOLEAN,
        n \in {NoneN} \cup (1..MaxNfits), it \in 0..MaxIter,
        m \in Interps, sp \in SavePaths}

FnIdle == fn = "none" /\ fn_in = None /\ fn_out = None

Init ==
    /\ config \in Configs
    /\ self = __init__(config)
    /\ pc = "idle"
    /\ call = "none"
    /\ i = 0
    /\ trace = <<>>
    /\ ncalls = 0
    /\ err = "none"
    /\ straight_loc = None
    /\ results = None
    /\ ndone = 0
    /\ order = <<>>
    /\ fitted = None
    /\ lastpass = "none"
    /\ saved = None
    /\ lastCall = "__init__"
    /\ prevCall = "none"
    /\ FnIdle

(* the running call ends, normally (e = "none") or with exception e *)
Return(e) ==
    /\ pc' = "idle"
    /\ call' = "none"
    /\ err' = e
    /\ prevCall' = lastCall
    /\ lastCall' = call

Enter(name) ==
    /\ pc = "idle"
    /\ ncalls < MaxCalls
    /\ ncalls' = ncalls + 1
    /\ call' = name
    /\ err' = "none"

(* caller: engine.run() *)
CallRun ==
    /\ Enter("run")
    /\ pc' = "loop"
    /\ i' = 0
    /\ trace' = <<>>
    /\ UNCHANGED <<config, self, straight_loc, results, ndone, order, fitted, lastpass,
                   saved, lastCall, prevCall, fnvars>>

(* caller: engine.fit() *)
CallFit ==
    /\ Enter("fit")
    /\ pc' = "fit"
    /\ UNCHANGED <<config, self, i, trace, straight_loc, results, ndone, order, fitted,
                   lastpass, saved, lastCall, prevCall, fnvars>>

(* caller: engine.adjust_roi() *)
CallAdjustRoi ==
    /\ Enter("adjust_roi")
    /\ pc' = "adjust"
    /\ UNCHANGED <<config, self, i, trace, straight_loc, results, ndone, order, fitted,
                   lastpass, saved, lastCall, prevCall, fnvars>>

(* caller: engine.reset() *)
CallReset ==
    /\ Enter("reset")
    /\ pc' = "reset"
    /\ UNCHANGED <<config, self, i, trace, straight_loc, results, ndone, order, fitted,
                   lastpass, saved, lastCall, prevCall, fnvars>>

(* reset, lines 242-243 *)
Reset ==
    /\ pc = "reset"
    /\ self' = reset(self)
    /\ lastpass' = "none"
    /\ Return(IF reset_raises(self) THEN "TypeError" ELSE "none")
    /\ UNCHANGED <<config, i, trace, ncalls, straight_loc, results, ndone, order, fitted,
                   saved, fnvars>>

(* for i in range(self.iterations): another pass after k passes? *)
LoopContinuesOffByOne(s, k) == k + 1 < s.iterations

LoopContinues(s, k) == k < s.iterations

(* if self.save_path is not None *)
ShouldSaveAlways(s) == TRUE

ShouldSave(s) == s.save_path # None

(* run, line 117-118: the head of the for loop *)
RunLoop ==
    /\ pc = "loop"
    /\ pc' = IF LoopContinues(self, i)
             THEN IF i > 0 THEN "adjust" ELSE "fit"
             ELSE "sim"
    /\ UNCHANGED <<config, self, call, i, trace, ncalls, err, straight_loc, results,
                   ndone, order, fitted, lastpass, saved, lastCall, prevCall, fnvars>>

(* adjust_roi, called by run (line 119) or by the caller *)
AdjustRoi ==
    /\ pc = "adjust"
    /\ IF adjust_roi_raises(self)
       THEN /\ Return("TypeError")
            /\ UNCHANGED <<self, trace, lastpass>>
       ELSE /\ self' \in adjust_roi(self)
            /\ lastpass' = "none"
            /\ IF call = "run"
               THEN /\ pc' = "reset_res"
                    /\ trace' = Append(trace, "Adjust")
                    /\ UNCHANGED <<call, err, lastCall, prevCall>>
               ELSE /\ Return("none")
                    /\ UNCHANGED trace
    /\ UNCHANGED <<config, i, ncalls, straight_loc, results, ndone, order, fitted,
                   saved, fnvars>>

(* run, line 120 *)
RunResetRes ==
    /\ pc = "reset_res"
    /\ self' = reset_res(self)
    /\ lastpass' = "none"
    /\ IF reset_res_raises(self)
       THEN Return("TypeError") /\ UNCHANGED trace
       ELSE /\ pc' = "fit"
            /\ trace' = Append(trace, "ResetRes")
            /\ UNCHANGED <<call, err, lastCall, prevCall>>
    /\ UNCHANGED <<config, i, ncalls, straight_loc, results, ndone, order, fitted,
                   saved, fnvars>>

(* fit, lines 132-153: straighten, smoothen, resample; then hand out the   *)
(* columns, to the loop of line 163 or to the workers of line 157          *)
FitPrepare ==
    /\ pc = "fit"
    /\ IF ~HasRoi(self)
       THEN /\ Return("TypeError")
            /\ UNCHANGED <<self, straight_loc, results, ndone, order, fitted, lastpass>>
       ELSE LET s1 == fit_straighten(self)
            IN  /\ self' = s1
                /\ IF fit_interp_raises(s1)
                   THEN /\ Return("ValueError")
                        /\ lastpass' = "none"
                        /\ UNCHANGED <<straight_loc, results, ndone, order, fitted>>
                   ELSE /\ straight_loc' = fit_interp(s1)
                        /\ results' = [x \in 1..NCols(fit_interp(s1)) |-> Pending]
                        /\ fitted' = [x \in 1..NCols(fit_interp(s1)) |-> Pending]
                        /\ ndone' = 0
                        /\ order' = <<>>
                        /\ lastpass' = "running"
                        /\ pc' = "fit_cols"
                        /\ UNCHANGED <<call, err, lastCall, prevCall>>
    /\ UNCHANGED <<config, i, trace, ncalls, saved, fnvars>>

(* line 164: the sequential loop fits column x and stores its triple *)
FitColumn ==
    /\ pc = "fit_cols"
    /\ ~self.parallel
    /\ ndone < NCols(straight_loc)
    /\ LET x == ndone + 1
       IN  \E ans \in BoxCorners(SearchBounds(self, Column(straight_loc, x))) :
              /\ self' = fit_store(self, x, _fit_profile(self, ans))
              /\ fitted' = [fitted EXCEPT ![x] = _fit_profile(self, ans)]
    /\ ndone' = ndone + 1
    /\ order' = Append(order, ndone + 1)
    /\ UNCHANGED <<config, pc, call, i, trace, ncalls, err, straight_loc, results,
                   lastpass, saved, lastCall, prevCall, fnvars>>

(* lines 157-158: the worker given column x completes, in any order *)
TaskComplete ==
    /\ pc = "fit_cols"
    /\ self.parallel
    /\ \E x \in 1..NCols(straight_loc) :
          /\ fitted[x] = Pending
          /\ \E ans \in BoxCorners(SearchBounds(self, Column(straight_loc, x))) :
                /\ results' = StoreResult(results, ndone, x, _fit_profile(self, ans))
                /\ fitted' = [fitted EXCEPT ![x] = _fit_profile(self, ans)]
          /\ order' = Append(order, x)
    /\ ndone' = ndone + 1
    /\ UNCHANGED <<config, self, pc, call, i, trace, ncalls, err, straight_loc,
                   lastpass, saved, lastCall, prevCall, fnvars>>

(* lines 159-161 and 167-169, then back to run (line 117) or to the caller *)
FitFinish ==
    /\ pc = "fit_cols"
    /\ ndone = NCols(straight_loc)
    /\ self' = fit_full(IF self.parallel THEN fit_collect(self, results) ELSE self)
    /\ lastpass' = "done"
    /\ order' = <<>>
    /\ IF call = "run"
       THEN /\ pc' = "loop"
            /\ i' = i + 1
            /\ trace' = Append(trace, "Fit")
            /\ UNCHANGED <<call, err, lastCall, prevCall>>
       ELSE /\ Return("none")
            /\ UNCHANGED <<i, trace>>
    /\ UNCHANGED <<config, ncalls, straight_loc, results, ndone, fitted, saved, fnvars>>

(* run, line 124 *)
RunSim ==
    /\ pc = "sim"
    /\ self' = sim_images(self)
    /\ IF sim_images_raises(self)
       THEN /\ Return(IF HasRoi(self) /\ SimCols(self) < Len(self.roi)
                      THEN "IndexError" ELSE IF HasRoi(self) THEN "ValueError"
                      ELSE "TypeError")
            /\ UNCHANGED trace
       ELSE /\ pc' = "save"
            /\ trace' = Append(trace, "Sim")
            /\ UNCHANGED <<call, err, lastCall, prevCall>>
    /\ UNCHANGED <<config, i, ncalls, straight_loc, results, ndone, order, fitted, lastpass,
                   saved, fnvars>>

(* run, lines 127-128, and the return of run *)
RunSave ==
    /\ pc = "save"
    /\ IF ShouldSave(self)
       THEN saved' = <<save(self)>> /\ trace' = Append(trace, "Save")
       ELSE UNCHANGED <<saved, trace>>
    /\ Return("none")
    /\ UNCHANGED <<config, self, i, ncalls, straight_loc, results, ndone, order, fitted,
                   lastpass, fnvars>>

Next ==
    \/ CallRun
    \/ CallFit
    \/ CallAdjustRoi
    \/ CallReset
    \/ Reset
    \/ RunLoop
    \/ AdjustRoi
    \/ RunResetRes
    \/ FitPrepare
    \/ FitColumn
    \/ TaskComplete
    \/ FitFinish
    \/ RunSim
    \/ RunSave

Spec == Init /\ [][Next]_vars

TypeOK ==
    /\ pc \in {"idle", "loop", "adjust", "reset_res", "reset", "fit", "fit_cols", "sim", "save"}
    /\ err \in {"none", "TypeError", "ValueError", "IndexError"}
    /\ ncalls \in 0..MaxCalls

----------------------------------------------------------------------------
(* The utilities and the profile fitter applied to drawn inputs *)

BaseConfig ==
    [img |-> Img0, roi |-> None, fnum |-> 1, periodic |-> TRUE, thickness |-> 2,
     itp2 |-> 2, rol_ave |-> 2, parallel |-> FALSE, rotate |-> FALSE,
     zerocap |-> TRUE, nfits |-> NoneN, iterations |-> 2, interp |-> "cubic",
     save_path |-> None, bg_subtract |-> FALSE]

EngineIdle ==
    /\ self = __init__(config)
    /\ pc = "idle"
    /\ call = "none"
    /\ i = 0
    /\ trace = <<>>
    /\ ncalls = 0
    /\ err = "none"
    /\ straight_loc = None
    /\ results = None
    /\ ndone = 0
    /\ order = <<>>
    /\ fitted = None
    /\ lastpass = "none"
    /\ saved = None
    /\ lastCall = "__init__"
    /\ prevCall = "none"

CellVals == {0, 1}

Arrays2D ==
    UNION {SeqsOfLen(SeqsOfLen(CellVals, c), r) : r \in 1..MaxArrLen, c \in 1..MaxArrLen}

AxisVals == {-1, 0, 1, 2}

InitInterp ==
    /\ config = BaseConfig
    /\ EngineIdle
    /\ fn = "none"
    /\ fn_in \in [array : Arrays2D, n : 1..MaxInterpN, ax : AxisVals,
                  method : {"linear", "cubic"}]
    /\ fn_out = None

(* interp_2d_array(array, n, ax, method) called, its outcome recorded *)
CallInterp2d ==
    /\ fn = "none"
    /\ fn' = "interp_2d_array"
    /\ fn_out' = IF interp_2d_raises(fn_in.array, fn_in.n, fn_in.ax, fn_in.method)
                 THEN Raised("ValueError")
                 ELSE Returned(interp_2d_array(fn_in.array, fn_in.n, fn_in.ax, fn_in.method))
    /\ UNCHANGED <<engvars, fn_in>>

NextInterp == CallInterp2d

SpecInterp == InitInterp /\ [][NextInterp]_vars

(* pixel positions of the image, coincident and axis-parallel neighbours   *)
(* included                                                                *)
GridPoints == {<<0, 0>>, <<1, 0>>, <<0, 1>>, <<1, 1>>}

StraightenRois == UNION {SeqsOfLen(GridPoints, n) : n \in 0..MaxRoiLen}

InitStraighten ==
    /\ config = BaseConfig
    /\ EngineIdle
    /\ fn = "none"
    /\ fn_in \in [roi : StraightenRois, thickness : 1..MaxThickness]
    /\ fn_out = None

(* straighten(img, roi, thickness) called, its outcome recorded *)
CallStraighten ==
    /\ fn = "none"
    /\ fn' = "straighten"
    /\ fn_out' = IF straighten_raises(fn_in.roi)
                 THEN Raised("IndexError")
                 ELSE Returned(straighten(config.img, fn_in.roi, fn_in.thickness))
    /\ UNCHANGED <<engvars, fn_in>>

NextStraighten == CallStraighten

SpecStraighten == InitStraighten /\ [][NextStraighten]_vars

(* stacks of 1..MaxArrLen rows and 1..MaxCols positions *)
RollArrays ==
    UNION {SeqsOfLen(SeqsOfLen(CellVals, c), r) : r \in 1..MaxArrLen, c \in 1..MaxCols}

InitRoll ==
    /\ config = BaseConfig
    /\ EngineIdle
    /\ fn = "none"
    /\ fn_in \in [array : RollArrays, window : 1..MaxCols, periodic : BOOLEAN]
    /\ fn_out = None

(* rolling_ave_2d(array, window, periodic) called, its outcome recorded *)
CallRollingAve2d ==
    /\ fn = "none"
    /\ fn' = "rolling_ave_2d"
    /\ fn_out' = Returned(rolling_ave_2d(fn_in.array, fn_in.window, fn_in.periodic))
    /\ UNCHANGED <<engvars, fn_in>>

NextRoll == CallRollingAve2d

SpecRoll == InitRoll /\ [][NextRoll]_vars

ProfileVals == {-1, 0, 2}

(* profiles of thickness_itp samples *)
ProfilesOf(n) ==
    {[k \in 1..n |-> IF k = 1 THEN a ELSE b] : a \in ProfileVals, b \in ProfileVals}

FitConfigs ==
    {[BaseConfig EXCEPT !.thickness = t, !.itp2 = p, !.fnum = f, !.zerocap = z] :
        t \in 1..MaxThickness, p \in 2..MaxItp2, f \in 0..FDen, z \in BOOLEAN}

InitFit ==
    /\ config \in FitConfigs
    /\ EngineIdle
    /\ fn = "none"
    /\ fn_in \in [profile : ProfilesOf(ThicknessItp(config.itp2, config.thickness))]
    /\ fn_out = None

(* self._fit_profile(profile) called: the optimizer answers with a point   *)
(* of the search box.  Given an interval whose lower end exceeds its upper *)
(* end, the optimizer either rejects the bounds or searches between the    *)
(* two ends, depending on its version.                                     *)
CallFitProfile ==
    /\ fn = "none"
    /\ fn' = "_fit_profile"
    /\ LET b == SearchBounds(self, fn_in.profile)
       IN  \/ /\ ~WellFormed(b)
              /\ fn_out' = Raised("ValueError")
           \/ \E x \in BoxGrid(b) :
                 fn_out' = Returned([bounds |-> b, x |-> x, res |-> _fit_profile(self, x)])
    /\ UNCHANGED <<engvars, fn_in>>

NextFit == CallFitProfile

SpecFit == InitFit /\ [][NextFit]_vars

----------------------------------------------------------------------------
(* Properties *)

IsLoopStep(e) == e \in {"Fit", "Adjust", "ResetRes"}

IsSim(e) == e = "Sim"

IsSave(e) == e = "Save"

IsPrefix(a, b) == Len(a) <= Len(b) /\ SubSeq(b, 1, Len(a)) = a

AllZero(a) == Len(a) >= 1 /\ \A k \in 1..Len(a) : a[k] = 0

(* Fit, then (Adjust, reset results, Fit) n - 1 times *)
RECURSIVE FitTrace(_)
FitTrace(n) ==
    IF n <= 0 THEN <<>>
    ELSE IF n = 1 THEN <<"Fit">>
    ELSE FitTrace(n - 1) \o <<"Adjust", "ResetRes", "Fit">>

(* the last call of the caller was run() and it returned normally *)
RunReturned == lastCall = "run" /\ pc = "idle" /\ err = "none"

(* C1: with iterations = N >= 1, the steps of one run() are at every       *)
(* moment a prefix of Fit, (Adjust, reset results, Fit) x (N - 1), and     *)
(* they are that whole sequence once the loop is left: N fitting passes    *)
(* and N - 1 adjustments, none skipped, none added, whatever was fitted.   *)
C1_FixedPasses ==
    self.iterations >= 1 =>
        /\ IsPrefix(SelectSeq(trace, IsLoopStep), FitTrace(self.iterations))
        /\ (RunReturned \/ (call = "run" /\ pc \in {"sim", "save"}))
              => SelectSeq(trace, IsLoopStep) = FitTrace(self.iterations)

C1_Witness ==
    /\ RunReturned
    /\ self.iterations >= 2
    /\ Len(SelectSeq(trace, IsLoopStep)) = 3 * self.iterations - 2
    /\ \E x \in 1..Len(self.offsets) : self.offsets[x] # 0

(* C2: a run() that returns has executed Simulate exactly once, after all  *)
(* steps of the fitting loop (also when there were none, iterations = 0),  *)
(* and Save exactly once after Simulate if save_path is configured; with   *)
(* save_path None nothing is ever saved.                                   *)
C2_SimulateThenSave ==
    /\ Len(SelectSeq(trace, IsSim)) <= 1
    /\ Len(SelectSeq(trace, IsSave)) <= 1
    /\ self.save_path = None => (Len(SelectSeq(trace, IsSave)) = 0 /\ saved = <<>>)
    /\ RunReturned =>
          LET n == Len(trace)
              simPos == IF self.save_path # None THEN n - 1 ELSE n
          IN  /\ simPos >= 1
              /\ trace[simPos] = "Sim"
              /\ self.save_path # None => (trace[n] = "Save" /\ Len(saved) = 1)
              /\ \A k \in 1..(simPos - 1) : IsLoopStep(trace[k])
              /\ Len(SelectSeq(trace, IsLoopStep)) = simPos - 1

C2_Witness ==
    /\ RunReturned
    /\ self.iterations >= 1
    /\ self.save_path # None
    /\ Len(saved) = 1
    /\ trace[Len(trace)] = "Save"

(* C3: reset() called after run() on an engine that was given an ROI       *)
(* returns with the ROI equal to the original input ROI and with offsets,  *)
(* cyts, mems and their full-resolution counterparts all zero.             *)
C3_ResetAfterRun ==
    (lastCall = "reset" /\ prevCall = "run" /\ pc = "idle" /\ config.roi # None) =>
        /\ err = "none"
        /\ self.roi = config.roi
        /\ self.roi_init = config.roi
        /\ AllZero(self.offsets) /\ AllZero(self.cyts) /\ AllZero(self.mems)
        /\ AllZero(self.offsets_full) /\ AllZero(self.cyts_full)
        /\ AllZero(self.mems_full)

C3_Witness ==
    /\ lastCall = "reset" /\ prevCall = "run" /\ pc = "idle" /\ err = "none"
    /\ self.iterations >= 2
    /\ \E k \in 1..Len(trace) : trace[k] = "Adjust"
    /\ self.roi = config.roi

(* C4: reset() returns without raising from every state of the engine,     *)
(* an engine constructed with roi = None included.                         *)
C4_ResetNeverRaises ==
    (lastCall = "reset" /\ pc = "idle") => err = "none"

(* C5: when all workers of a parallel pass have completed, in whatever     *)
(* order, element x of the collected results is the triple fitted for      *)
(* column x; and after a pass of either kind offsets[x], cyts[x], mems[x]  *)
(* are the triple fitted for column x.                                     *)
C5_ResultsByPosition ==
    /\ (pc = "fit_cols" /\ self.parallel /\ ndone = NCols(straight_loc)) =>
          \A x \in 1..NCols(straight_loc) : results[x] = fitted[x]
    /\ lastpass = "done" =>
          /\ Len(self.offsets) = Len(fitted)
          /\ \A x \in 1..Len(fitted) :
                <<self.offsets[x], self.cyts[x], self.mems[x]>> = fitted[x]

C5_Witness ==
    /\ pc = "fit_cols" /\ self.parallel
    /\ ndone = NCols(straight_loc)
    /\ ndone >= 2
    /\ order[1] > order[2]
    /\ fitted[1] # fitted[2]
    /\ results[1] = fitted[1]

(* C6: the offset returned by _fit_profile for a candidate index l inside  *)
(* the search bounds satisfies |offset| <= 0.5 * freedom * thickness, and  *)
(* l = thickness_itp / 2 gives offset 0.                                   *)
C6_OffsetWithinFreedom ==
    (fn = "_fit_profile" /\ ~fn_out.raised) =>
        LET onum == fn_out.value.res[1]
        IN  /\ 2 * Abs(onum) <= config.fnum * config.thickness * config.itp2
            /\ fn_out.value.x.l2 = self.thickness_itp * FDen => onum = 0

C6_Witness ==
    /\ fn = "_fit_profile" /\ ~fn_out.raised
    /\ config.fnum > 0
    /\ fn_out.value.x.l2 = fn_out.value.bounds.l2[2]
    /\ 2 * fn_out.value.res[1] = config.fnum * config.thickness * config.itp2

(* C7: in run(), when a fitting pass is about to start after an ROI        *)
(* adjustment, offsets_full, cyts_full and mems_full are all zero with     *)
(* len(roi) entries and every straightened / simulated image is all zero   *)
(* with len(roi) columns.                                                  *)
C7_ResetBeforeRefit ==
    (call = "run" /\ pc = "fit" /\ i > 0) =>
        LET n == Len(self.roi)
            z == Zeros2(self.thickness, n)
        IN  /\ self.offsets_full = Zeros(n)
            /\ self.cyts_full = Zeros(n)
            /\ self.mems_full = Zeros(n)
            /\ self.straight = z /\ self.straight_filtered = z
            /\ self.straight_fit = z /\ self.straight_mem = z
            /\ self.straight_cyt = z /\ self.straight_resids = z
            /\ self.straight_resids_pos = z /\ self.straight_resids_neg = z

C7_Witness ==
    /\ call = "run" /\ pc = "fit" /\ i > 0
    /\ ncalls = 1
    /\ Len(self.roi) # Len(self.roi_init)
    /\ NCols(self.straight_fit) = Len(self.roi)

(* C8: after every fitting pass offsets, cyts and mems have nfits entries, *)
(* and with nfits not configured that is the point count of the ROI the    *)
(* pass fitted.                                                            *)
C8_NfitsIsRoiPointCount ==
    lastpass = "done" =>
        /\ Len(self.offsets) = self.nfits
        /\ Len(self.cyts) = self.nfits
        /\ Len(self.mems) = self.nfits
        /\ config.nfits = NoneN => Len(self.offsets) = Len(self.roi)

(* C9: the offsets, cyts and mems tables written by save have as many      *)
(* rows as the ROI table written with them.                                *)
C9_SavedTablesOnePerRoiPoint ==
    Len(saved) = 1 =>
        /\ Len(saved[1].offsets) = Len(saved[1].roi)
        /\ Len(saved[1].cyts) = Len(saved[1].roi)
        /\ Len(saved[1].mems) = Len(saved[1].roi)

(* C10: interp_2d_array called with ax other than 0 or 1 raises; it does   *)
(* not return a value.                                                     *)
C10_InvalidAxisRaises ==
    (fn = "interp_2d_array" /\ fn_in.ax \notin {0, 1}) => fn_out.raised

(* C11: straighten called with an ROI in which some point coincides with   *)
(* its predecessor (the first point with the last) reports a fault: it     *)
(* raises, and does not return a straightened stack.                       *)
C11_CoincidentPointsReported ==
    (fn = "straighten" /\ \E x \in 1..Len(fn_in.roi) : Coincident(fn_in.roi, x))
        => fn_out.raised

(* C12: for every window w with 1 <= w <= number of positions, periodic or *)
(* not, rolling_ave_2d returns an array with as many rows and as many      *)
(* columns as its input.                                                   *)
C12_RollingKeepsShape ==
    (fn = "rolling_ave_2d" /\ fn_in.window <= NCols(fn_in.array)) =>
        /\ NRows(fn_out.value) = NRows(fn_in.array)
        /\ \A r \in 1..NRows(fn_out.value) :
               Len(fn_out.value[r]) = NCols(fn_in.array)

(* C13: for every profile, freedom and zerocap setting the three search    *)
(* intervals _fit_profile hands to the optimizer have lower <= upper; with *)
(* zerocap set the intervals of c and m are [0, 2 * max(profile)], or      *)
(* [0, 0] for a profile without a positive sample, and the fitted c and m  *)
(* are not negative.                                                       *)
C13_SearchIntervalsWellFormed ==
    fn = "_fit_profile" =>
        LET b == SearchBounds(self, fn_in.profile)
            mx == SeqMax(fn_in.profile)
        IN  /\ WellFormed(b)
            /\ self.zerocap =>
                  /\ b.c5 = <<0, IF mx > 0 THEN 10 * mx ELSE 0>>
                  /\ b.m5 = b.c5
                  /\ ~fn_out.raised =>
                        (fn_out.value.res[2] >= 0 /\ fn_out.value.res[3] >= 0)

====
